---- MODULE Spec2Model ----
(***************************************************************************)
(* A model of openraft's runtime configuration (openraft/src/config.rs):   *)
(* the unit parsers, the structopt field table and its layered resolution  *)
(* (command line, environment, default), Config::build, Config::validate   *)
(* and Config::new_rand_election_timeout.                                  *)
(*                                                                         *)
(* Strings are sequences of one-character strings, so that splitting and   *)
(* number parsing are computed character by character as the code does.    *)
(***************************************************************************)
EXTENDS Integers, Sequences, FiniteSets, TLC

VARIABLES
    call,       \* the last call made: its operation and its inputs
    result,     \* what that call returned
    config,     \* the Config value the caller holds, if any
    src         \* the string handed to a unit parser

vars == <<call, result, config, src>>

(***************************************************************************)
(* Bounds of the model.                                                    *)
(***************************************************************************)
\* struct-literal configs take their timing fields from 0..MaxTime
MaxTime == 3
\* struct-literal configs take max_payload_entries from 0..MaxPayload
MaxPayload == 2
\* number of flag tokens after the program name on a command line
MaxArgs == 2
\* number of RAFT_ variables set in the environment
MaxEnvSet == 1
\* number of pieces concatenated to form a parser input
MaxPieces == 4

(***************************************************************************)
(* String literals.                                                        *)
(***************************************************************************)
s_since_last == <<"s", "i", "n", "c", "e", "_", "l", "a", "s", "t">>
s_foo == <<"f", "o", "o">>
s_bar == <<"b", "a", "r">>
s_abc == <<"a", "b", "c">>
s_colon == <<":">>

DigitChars == <<"0", "1", "2", "3", "4", "5", "6", "7", "8", "9">>

IsDigit(c) == \E d \in 1..10 : DigitChars[d] = c

DigitVal(c) == (CHOOSE d \in 1..10 : DigitChars[d] = c) - 1

(***************************************************************************)
(* str::parse::<u64>: an optional leading '+', then one or more decimal    *)
(* digits.  The empty string, a lone sign, a '-' and any non-digit fail.   *)
(* Overflow past 2^64-1 needs a token of 20 digits; the tokens of this     *)
(* model have at most 7 characters, so the overflow error is out of reach  *)
(* and is not modelled.                                                    *)
(***************************************************************************)
RECURSIVE digits_value(_, _)
digits_value(s, acc) ==
    IF s = <<>> THEN acc
    ELSE digits_value(Tail(s), acc * 10 + DigitVal(Head(s)))

parse_u64(s) ==
    IF s = <<>> THEN [ok |-> FALSE, val |-> 0]
    ELSE LET digits == IF Head(s) = "+" THEN Tail(s) ELSE s
         IN  IF digits = <<>> THEN [ok |-> FALSE, val |-> 0]
             ELSE IF \E i \in 1..Len(digits) : ~IsDigit(digits[i])
                  THEN [ok |-> FALSE, val |-> 0]
                  ELSE [ok |-> TRUE, val |-> digits_value(digits, 0)]

(***************************************************************************)
(* str::split(':').collect(): the pieces between separators, in order; a   *)
(* string without the separator is a single piece, and empty pieces are    *)
(* kept.                                                                   *)
(***************************************************************************)
RECURSIVE split(_, _)
split(s, sep) ==
    IF \A i \in 1..Len(s) : s[i] # sep THEN <<s>>
    ELSE LET i == CHOOSE k \in 1..Len(s) :
                      s[k] = sep /\ \A j \in 1..(k - 1) : s[j] # sep
         IN  <<SubSeq(s, 1, i - 1)>> \o split(SubSeq(s, i + 1, Len(s)), sep)

LogsSinceLast(n) == [variant |-> "LogsSinceLast", n |-> n]

NoPolicy == [variant |-> "none", n |-> 0]

parse_snapshot_policy_len_lt(s) ==
    LET elts == split(s, ":")
    IN  IF Len(elts) < 2 THEN [ok |-> FALSE, val |-> NoPolicy]
        ELSE IF elts[1] # s_since_last THEN [ok |-> FALSE, val |-> NoPolicy]
        ELSE LET n_logs == parse_u64(elts[2])
             IN  IF ~n_logs.ok THEN [ok |-> FALSE, val |-> NoPolicy]
                 ELSE [ok |-> TRUE, val |-> LogsSinceLast(n_logs.val)]

parse_snapshot_policy(s) ==
    LET elts == split(s, ":")
    IN  IF Len(elts) # 2 THEN [ok |-> FALSE, val |-> NoPolicy]
        ELSE IF elts[1] # s_since_last THEN [ok |-> FALSE, val |-> NoPolicy]
        ELSE LET n_logs == parse_u64(elts[2])
             IN  IF ~n_logs.ok THEN [ok |-> FALSE, val |-> NoPolicy]
                 ELSE [ok |-> TRUE, val |-> LogsSinceLast(n_logs.val)]

(***************************************************************************)
(* parse_bytes_with_unit: byte_unit's Byte::from_str on an integer prefix  *)
(* followed by an optional unit.  Decimal units are powers of 1000, binary *)
(* units powers of 1024.  Fractional prefixes and embedded spaces are not  *)
(* among the tokens of this model.                                         *)
(***************************************************************************)
RECURSIVE digit_prefix_len(_)
digit_prefix_len(s) ==
    IF s = <<>> \/ ~IsDigit(Head(s)) THEN 0
    ELSE 1 + digit_prefix_len(Tail(s))

unit_bytes(u) ==
    IF u = <<>> \/ u = <<"B">> THEN 1
    ELSE IF u = <<"K", "B">> THEN 1000
    ELSE IF u = <<"K", "i", "B">> THEN 1024
    ELSE IF u = <<"M", "B">> THEN 1000 * 1000
    ELSE IF u = <<"M", "i", "B">> THEN 1024 * 1024
    ELSE 0

parse_bytes_with_unit(s) ==
    LET k == digit_prefix_len(s)
        unit == SubSeq(s, k + 1, Len(s))
    IN  IF k = 0 \/ unit_bytes(unit) = 0 THEN [ok |-> FALSE, val |-> 0]
        ELSE [ok |-> TRUE, val |-> digits_value(SubSeq(s, 1, k), 0) * unit_bytes(unit)]

(***************************************************************************)
(* The Config struct and its structopt field table: for every field its    *)
(* long flag, its environment variable, its default_value string and the   *)
(* conversion applied to the raw string.                                   *)
(***************************************************************************)
Fields ==
    <<"cluster_name", "election_timeout_min", "election_timeout_max",
      "heartbeat_interval", "install_snapshot_timeout", "max_payload_entries",
      "replication_lag_threshold", "snapshot_policy", "snapshot_max_chunk_size",
      "max_applied_log_to_keep">>

FieldSet == {Fields[i] : i \in 1..Len(Fields)}

long_name(f) ==
    CASE f = "cluster_name" -> "cluster-name"
      [] f = "election_timeout_min" -> "election-timeout-min"
      [] f = "election_timeout_max" -> "election-timeout-max"
      [] f = "heartbeat_interval" -> "heartbeat-interval"
      [] f = "install_snapshot_timeout" -> "install-snapshot-timeout"
      [] f = "max_payload_entries" -> "max-payload-entries"
      [] f = "replication_lag_threshold" -> "replication-lag-threshold"
      [] f = "snapshot_policy" -> "snapshot-policy"
      [] f = "snapshot_max_chunk_size" -> "snapshot-max-chunk-size"
      [] f = "max_applied_log_to_keep" -> "max-applied-log-to-keep"

env_name(f) ==
    CASE f = "cluster_name" -> "RAFT_CLUSTER_NAME"
      [] f = "election_timeout_min" -> "RAFT_ELECTION_TIMEOUT_MIN"
      [] f = "election_timeout_max" -> "RAFT_ELECTION_TIMEOUT_MAX"
      [] f = "heartbeat_interval" -> "RAFT_HEARTBEAT_INTERVAL"
      [] f = "install_snapshot_timeout" -> "RAFT_INSTALL_SNAPSHOT_TIMEOUT"
      [] f = "max_payload_entries" -> "RAFT_MAX_PAYLOAD_ENTRIES"
      [] f = "replication_lag_threshold" -> "RAFT_REPLICATION_LAG_THRESHOLD"
      [] f = "snapshot_policy" -> "RAFT_SNAPSHOT_POLICY"
      [] f = "snapshot_max_chunk_size" -> "RAFT_SNAPSHOT_MAX_CHUNK_SIZE"
      [] f = "max_applied_log_to_keep" -> "RAFT_MAX_APPLIED_LOG_TO_KEEP"

EnvNames == {env_name(f) : f \in FieldSet}

default_value_chunk_3mb(f) ==
    CASE f = "cluster_name" -> s_foo
      [] f = "election_timeout_min" -> <<"1", "5", "0">>
      [] f = "election_timeout_max" -> <<"3", "0", "0">>
      [] f = "heartbeat_interval" -> <<"5", "0">>
      [] f = "install_snapshot_timeout" -> <<"2", "0", "0">>
      [] f = "max_payload_entries" -> <<"3", "0", "0">>
      [] f = "replication_lag_threshold" -> <<"1", "0", "0", "0">>
      [] f = "snapshot_policy" -> s_since_last \o s_colon \o <<"5", "0", "0", "0">>
      [] f = "snapshot_max_chunk_size" -> <<"3", "M", "B">>
      [] f = "max_applied_log_to_keep" -> <<"1", "0", "0", "0">>

default_value(f) ==
    CASE f = "cluster_name" -> s_foo
      [] f = "election_timeout_min" -> <<"1", "5", "0">>
      [] f = "election_timeout_max" -> <<"3", "0", "0">>
      [] f = "heartbeat_interval" -> <<"5", "0">>
      [] f = "install_snapshot_timeout" -> <<"2", "0", "0">>
      [] f = "max_payload_entries" -> <<"3", "0", "0">>
      [] f = "replication_lag_threshold" -> <<"1", "0", "0", "0">>
      [] f = "snapshot_policy" -> s_since_last \o s_colon \o <<"5", "0", "0", "0">>
      [] f = "snapshot_max_chunk_size" -> <<"3", "M", "i", "B">>
      [] f = "max_applied_log_to_keep" -> <<"1", "0", "0", "0">>

\* the conversion of a field's raw string: String::from_str for cluster_name,
\* the parse(try_from_str = ...) function where one is named, u64::from_str
\* for the rest
convert(f, raw) ==
    CASE f = "cluster_name" -> [ok |-> TRUE, val |-> raw]
      [] f = "snapshot_policy" -> parse_snapshot_policy(raw)
      [] f = "snapshot_max_chunk_size" -> parse_bytes_with_unit(raw)
      [] OTHER -> parse_u64(raw)

(***************************************************************************)
(* <Config as StructOpt>::from_iter(args).  The first item is the program  *)
(* name.  Each following token is a long flag with its value; an unknown   *)
(* token or a flag given twice is a usage error.  A field with no flag     *)
(* takes its environment variable when that is set, and a field with       *)
(* neither takes its default_value.  Every raw string is then converted;   *)
(* on any error from_iter prints it and exits the process.  The order of   *)
(* the three sources is fixed by the code the StructOpt derive generates,  *)
(* which config.rs does not contain; parse_args, add_env, add_defaults and *)
(* resolve follow the documented order.                                    *)
(***************************************************************************)
Unset == [set |-> FALSE, val |-> <<>>]

Set(v) == [set |-> TRUE, val |-> v]

EmptyMatcher == [f \in FieldSet |-> Unset]

RECURSIVE parse_args(_, _)
parse_args(tokens, matcher) ==
    IF tokens = <<>> THEN [ok |-> TRUE, val |-> matcher]
    ELSE LET t == Head(tokens)
         IN  IF \A f \in FieldSet : long_name(f) # t.flag
             THEN [ok |-> FALSE, val |-> matcher]
             ELSE LET f == CHOOSE g \in FieldSet : long_name(g) = t.flag
                  IN  IF matcher[f].set
                      THEN [ok |-> FALSE, val |-> matcher]
                      ELSE parse_args(Tail(tokens), [matcher EXCEPT ![f] = Set(t.val)])

add_env(matcher, env) ==
    [f \in FieldSet |-> IF matcher[f].set THEN matcher[f] ELSE env[env_name(f)]]

add_defaults(matcher) ==
    [f \in FieldSet |-> IF matcher[f].set THEN matcher[f] ELSE Set(default_value(f))]

resolve_defaults_first(matcher, env) == add_env(add_defaults(matcher), env)

resolve(matcher, env) == add_defaults(add_env(matcher, env))

NoConfig == [f \in FieldSet |-> 0]

from_iter(args, env) ==
    LET parsed == parse_args(IF args = <<>> THEN <<>> ELSE Tail(args), EmptyMatcher)
    IN  IF ~parsed.ok THEN [ok |-> FALSE, val |-> NoConfig]
        ELSE LET raw == resolve(parsed.val, env)
             IN  IF \E f \in FieldSet : ~convert(f, raw[f].val).ok
                 THEN [ok |-> FALSE, val |-> NoConfig]
                 ELSE [ok |-> TRUE,
                       val |-> [f \in FieldSet |-> convert(f, raw[f].val).val]]

(***************************************************************************)
(* Config::validate: three checks in order, the first failure returned.    *)
(***************************************************************************)
Ok(c) == [tag |-> "Ok", config |-> c, err |-> "none"]

Err(e) == [tag |-> "Err", config |-> NoConfig, err |-> e]

\* from_iter ended the process: the call never returns
Exit == [tag |-> "Exit", config |-> NoConfig, err |-> "none"]

NoResult == [tag |-> "None", config |-> NoConfig, err |-> "none"]

validate_minmax_gt(self) ==
    IF self.election_timeout_min > self.election_timeout_max
    THEN Err("InvalidElectionTimeoutMinMax")
    ELSE IF self.election_timeout_min <= self.heartbeat_interval
    THEN Err("ElectionTimeoutLessThanHeartBeatInterval")
    ELSE IF self.max_payload_entries = 0
    THEN Err("MaxPayloadEntriesTooSmall")
    ELSE Ok(self)

validate_heartbeat_first(self) ==
    IF self.election_timeout_min <= self.heartbeat_interval
    THEN Err("ElectionTimeoutLessThanHeartBeatInterval")
    ELSE IF self.election_timeout_min >= self.election_timeout_max
    THEN Err("InvalidElectionTimeoutMinMax")
    ELSE IF self.max_payload_entries = 0
    THEN Err("MaxPayloadEntriesTooSmall")
    ELSE Ok(self)

validate_heartbeat_lt(self) ==
    IF self.election_timeout_min >= self.election_timeout_max
    THEN Err("InvalidElectionTimeoutMinMax")
    ELSE IF self.election_timeout_min < self.heartbeat_interval
    THEN Err("ElectionTimeoutLessThanHeartBeatInterval")
    ELSE IF self.max_payload_entries = 0
    THEN Err("MaxPayloadEntriesTooSmall")
    ELSE Ok(self)

validate_payload_le_one(self) ==
    IF self.election_timeout_min >= self.election_timeout_max
    THEN Err("InvalidElectionTimeoutMinMax")
    ELSE IF self.election_timeout_min <= self.heartbeat_interval
    THEN Err("ElectionTimeoutLessThanHeartBeatInterval")
    ELSE IF self.max_payload_entries <= 1
    THEN Err("MaxPayloadEntriesTooSmall")
    ELSE Ok(self)

validate_no_payload_check(self) ==
    IF self.election_timeout_min >= self.election_timeout_max
    THEN Err("InvalidElectionTimeoutMinMax")
    ELSE IF self.election_timeout_min <= self.heartbeat_interval
    THEN Err("ElectionTimeoutLessThanHeartBeatInterval")
    ELSE Ok(self)

validate(self) ==
    IF self.election_timeout_min >= self.election_timeout_max
    THEN Err("InvalidElectionTimeoutMinMax")
    ELSE IF self.election_timeout_min <= self.heartbeat_interval
    THEN Err("ElectionTimeoutLessThanHeartBeatInterval")
    ELSE IF self.max_payload_entries = 0
    THEN Err("MaxPayloadEntriesTooSmall")
    ELSE Ok(self)

(***************************************************************************)
(* Config::build: from_iter, then validate.                                *)
(***************************************************************************)
build_unvalidated(args, env) ==
    LET parsed == from_iter(args, env)
    IN  IF ~parsed.ok THEN Exit ELSE Ok(parsed.val)

build(args, env) ==
    LET parsed == from_iter(args, env)
    IN  IF ~parsed.ok THEN Exit ELSE validate(parsed.val)

(***************************************************************************)
(* Config::new_rand_election_timeout: gen_range over the half-open range   *)
(* min..max.  gen_range panics on an empty range; otherwise any value of   *)
(* the range may come out.                                                 *)
(***************************************************************************)
Sampled(v) == [tag |-> "Ok", val |-> v]

Panic == [tag |-> "Panic", val |-> 0]

gen_range_inclusive(low, high) ==
    IF low > high THEN {Panic}
    ELSE {Sampled(v) : v \in low..high}

gen_range(low, high) ==
    IF low >= high THEN {Panic}
    ELSE {Sampled(v) : v \in low..(high - 1)}

new_rand_election_timeout(self) ==
    gen_range(self.election_timeout_min, self.election_timeout_max)

(***************************************************************************)
(* Inputs.                                                                 *)
(***************************************************************************)
\* the values a flag or an environment variable may carry, per field
TokenValues(f) ==
    CASE f = "cluster_name" -> {s_bar}
      [] f = "election_timeout_min" -> {<<"1", "0">>, <<"1", "0", "0">>}
      [] f = "election_timeout_max" -> {<<"2", "0">>}
      [] f = "heartbeat_interval" -> {<<"5">>, s_abc}
      [] f = "install_snapshot_timeout" -> {<<"+", "7">>}
      [] f = "max_payload_entries" -> {<<"0">>}
      [] f = "replication_lag_threshold" -> {<<"2", "0", "2">>}
      [] f = "snapshot_policy" -> {s_since_last \o s_colon \o <<"2", "0", "3">>}
      [] f = "snapshot_max_chunk_size" -> {<<"1", "K", "i", "B">>}
      [] f = "max_applied_log_to_keep" -> {<<"2", "0", "5">>}

\* "--<long>=<value>" tokens, and one token no field declares
FlagTokens ==
    UNION {{[flag |-> long_name(f), val |-> v] : v \in TokenValues(f)} : f \in FieldSet}
        \cup {[flag |-> "verbose", val |-> <<>>]}

ProgramName == [flag |-> "", val |-> s_foo]

RECURSIVE FlagLists(_)
FlagLists(k) ==
    IF k = 0 THEN {<<>>}
    ELSE LET shorter == FlagLists(k - 1)
         IN  shorter \cup {Append(l, t) : l \in shorter, t \in FlagTokens}

\* the empty list of Config::default(), and a program name followed by flags
ArgLists == {<<>>} \cup {<<ProgramName>> \o l : l \in FlagLists(MaxArgs)}

EmptyEnv == [n \in EnvNames |-> Unset]

RECURSIVE Envs(_)
Envs(k) ==
    IF k = 0 THEN {EmptyEnv}
    ELSE LET fewer == Envs(k - 1)
         IN  fewer \cup
             UNION {{[e EXCEPT ![env_name(f)] = Set(v)] : v \in TokenValues(f)} :
                        e \in fewer, f \in FieldSet}

Environments == Envs(MaxEnvSet)

\* struct literals: Config { <fields>, ..Default::default() }
StructConfigs ==
    LET base == from_iter(<<>>, EmptyEnv).val
    IN  {[base EXCEPT !.cluster_name = n,
                      !.election_timeout_min = lo,
                      !.election_timeout_max = hi,
                      !.heartbeat_interval = hb,
                      !.max_payload_entries = mpe] :
             n \in {s_foo, s_bar}, lo \in 0..MaxTime, hi \in 0..MaxTime,
             hb \in 0..MaxTime, mpe \in 0..MaxPayload}

Pieces == {s_since_last, s_colon, <<"5", "0">>, <<"0", "0">>, s_abc, s_foo, <<"+">>}

RECURSIVE Concats(_)
Concats(k) ==
    IF k = 0 THEN {<<>>}
    ELSE LET shorter == Concats(k - 1)
         IN  shorter \cup {l \o p : l \in shorter, p \in Pieces}

ParserInputs == Concats(MaxPieces)

(***************************************************************************)
(* State machine of a process that obtains a Config and draws timeouts.    *)
(***************************************************************************)
NoCall == [op |-> "none"]

Holding(state, c) == [state |-> state, val |-> c]

Init ==
    /\ call = NoCall
    /\ result = NoResult
    /\ config = Holding("none", NoConfig)
    /\ src = <<>>

\* Config::build(args) in an environment env
Build ==
    /\ call.op = "none"
    /\ \E args \in ArgLists, env \in Environments :
          /\ call' = [op |-> "build", args |-> args, env |-> env,
                      config |-> from_iter(args, env)]
          /\ result' = build(args, env)
    /\ config' = IF result'.tag = "Ok"
                 THEN Holding("validated", result'.config)
                 ELSE Holding("none", NoConfig)
    /\ UNCHANGED src

\* Config { .. } written by the caller, all fields being public
StructLiteral ==
    /\ call.op = "none"
    /\ call' = [op |-> "struct_literal"]
    /\ result' = NoResult
    /\ \E c \in StructConfigs : config' = Holding("unvalidated", c)
    /\ UNCHANGED src

\* config.validate(): consumes the value and returns it only when valid
Validate ==
    /\ config.state # "none"
    /\ call' = [op |-> "validate", input |-> config.val]
    /\ result' = validate(config.val)
    /\ config' = IF result'.tag = "Ok"
                 THEN Holding("validated", result'.config)
                 ELSE Holding("none", NoConfig)
    /\ UNCHANGED src

\* config.new_rand_election_timeout().  The call reads the config only, so
\* a draw that follows a draw has the outcomes of the first; the caller of
\* this model draws once after each call that hands it a Config.
NewRandElectionTimeout ==
    /\ config.state # "none"
    /\ call.op # "new_rand_election_timeout"
    /\ \E r \in new_rand_election_timeout(config.val) :
          /\ result' = r
          /\ config' = IF r.tag = "Panic" THEN Holding("none", NoConfig) ELSE config
    /\ call' = [op |-> "new_rand_election_timeout", input |-> config.val,
                validated |-> (config.state = "validated")]
    /\ UNCHANGED src

Next ==
    \/ Build
    \/ StructLiteral
    \/ Validate
    \/ NewRandElectionTimeout

Spec == Init /\ [][Next]_vars

(***************************************************************************)
(* The unit parsers applied to bounded strings.                            *)
(***************************************************************************)
InitParse ==
    /\ call = NoCall
    /\ result = NoResult
    /\ config = Holding("none", NoConfig)
    /\ src \in ParserInputs

ParseSnapshotPolicy ==
    /\ call.op = "none"
    /\ call' = [op |-> "parse_snapshot_policy"]
    /\ result' = parse_snapshot_policy(src)
    /\ UNCHANGED <<config, src>>

NextParse == ParseSnapshotPolicy

SpecParse == InitParse /\ [][NextParse]_vars

(***************************************************************************)
(* The stated invariants of a validated Config, as the documentation       *)
(* numbers them.                                                           *)
(***************************************************************************)
Holds(i, c) ==
    CASE i = 1 -> c.election_timeout_min < c.election_timeout_max
      [] i = 2 -> c.election_timeout_min > c.heartbeat_interval
      [] i = 3 -> c.max_payload_entries > 0

Violated(c) == {i \in 1..3 : ~Holds(i, c)}

LowestViolated(c) == CHOOSE i \in Violated(c) : \A j \in Violated(c) : i <= j

ErrorOf(i) ==
    CASE i = 1 -> "InvalidElectionTimeoutMinMax"
      [] i = 2 -> "ElectionTimeoutLessThanHeartBeatInterval"
      [] i = 3 -> "MaxPayloadEntriesTooSmall"

Validated == call.op = "validate"

Built == call.op = "build"

\* C1: validate returns Ok exactly when min < max, min > heartbeat_interval
\* and max_payload_entries > 0 all hold, and the Config returned is the input,
\* equal in every field.
C1_ValidateOkIffInvariants ==
    Validated =>
        /\ (result.tag = "Ok") <=> (Violated(call.input) = {})
        /\ result.tag \in {"Ok", "Err"}
        /\ result.tag = "Ok" =>
               \A f \in FieldSet : result.config[f] = call.input[f]

C1_Witness == Validated /\ result.tag = "Ok" /\ result.config = call.input

\* C2: when validate fails, the error is the one of the lowest-numbered
\* violated invariant, whatever else is violated.
C2_FirstViolationReported ==
    (Validated /\ Violated(call.input) # {}) =>
        /\ result.tag = "Err"
        /\ result.err = ErrorOf(LowestViolated(call.input))

C2_Witness ==
    /\ Validated
    /\ Violated(call.input) = {1, 2, 3}
    /\ result.err = "InvalidElectionTimeoutMinMax"

\* C3 as stated: every config with min <= heartbeat_interval fails with
\* ElectionTimeoutLessThanHeartBeatInterval, whatever min is to max.
C3_AsStated ==
    (Validated /\ ~Holds(2, call.input)) =>
        /\ result.tag = "Err"
        /\ result.err = "ElectionTimeoutLessThanHeartBeatInterval"

\* C3 amended: every config with min < max and min <= heartbeat_interval
\* fails with ElectionTimeoutLessThanHeartBeatInterval.
C3_HeartbeatErrorWhenMinBelowMax ==
    (Validated /\ Holds(1, call.input) /\ ~Holds(2, call.input)) =>
        /\ result.tag = "Err"
        /\ result.err = "ElectionTimeoutLessThanHeartBeatInterval"

C3_Witness ==
    /\ Validated
    /\ Holds(1, call.input)
    /\ call.input.election_timeout_min = call.input.heartbeat_interval
    /\ result.err = "ElectionTimeoutLessThanHeartBeatInterval"

\* C4: every config with min >= max, equality included and whatever the
\* heartbeat interval and max_payload_entries, fails with
\* InvalidElectionTimeoutMinMax.
C4_MinMaxError ==
    (Validated /\ ~Holds(1, call.input)) =>
        /\ result.tag = "Err"
        /\ result.err = "InvalidElectionTimeoutMinMax"

C4_Witness ==
    /\ Validated
    /\ call.input.election_timeout_min = call.input.election_timeout_max
    /\ Violated(call.input) = {1, 2, 3}
    /\ result.tag = "Err"

\* C5 as stated: a config with max_payload_entries = 0 fails with
\* MaxPayloadEntriesTooSmall, and one with max_payload_entries >= 1 is never
\* rejected with that error.
C5_AsStated ==
    Validated =>
        /\ ~Holds(3, call.input) =>
               (result.tag = "Err" /\ result.err = "MaxPayloadEntriesTooSmall")
        /\ Holds(3, call.input) => result.err # "MaxPayloadEntriesTooSmall"

\* C5 amended: a config with max_payload_entries = 0 that satisfies min < max
\* and min > heartbeat_interval fails with MaxPayloadEntriesTooSmall, and one
\* with max_payload_entries >= 1 is never rejected with that error.
C5_PayloadErrorWhenTimingValid ==
    Validated =>
        /\ (Violated(call.input) = {3}) =>
               (result.tag = "Err" /\ result.err = "MaxPayloadEntriesTooSmall")
        /\ Holds(3, call.input) => result.err # "MaxPayloadEntriesTooSmall"

C5_Witness ==
    /\ Validated
    /\ Violated(call.input) = {3}
    /\ result.err = "MaxPayloadEntriesTooSmall"

\* C6: whenever build returns Ok(c), c satisfies the three invariants, and
\* whenever the resolved field values violate one, build returns the
\* validator's error and no Config.
C6_BuildValidates ==
    Built =>
        /\ result.tag = "Ok" => Violated(result.config) = {}
        /\ (call.config.ok /\ Violated(call.config.val) # {}) =>
               /\ result.tag = "Err"
               /\ result.err = ErrorOf(LowestViolated(call.config.val))
               /\ config.state = "none"

C6_Witness ==
    /\ Built
    /\ Len(call.args) > 1
    /\ call.config.ok
    /\ Violated(call.config.val) # {}
    /\ result.tag = "Err"

Drawn == call.op = "new_rand_election_timeout"

\* C7: on a Config that passed validation, new_rand_election_timeout always
\* produces a value v, with election_timeout_min <= v < election_timeout_max;
\* election_timeout_max is never produced.
C7_TimeoutWithinHalfOpenRange ==
    (Drawn /\ call.validated) =>
        /\ result.tag = "Ok"
        /\ call.input.election_timeout_min <= result.val
        /\ result.val < call.input.election_timeout_max

\* election_timeout_min itself is drawn
C7_Witness ==
    /\ Drawn
    /\ call.validated
    /\ result.tag = "Ok"
    /\ result.val = call.input.election_timeout_min

(***************************************************************************)
(* The documented precedence, field by field: the flag's value if the      *)
(* command line carries the field's flag, else the field's environment     *)
(* variable if set, else the default.                                      *)
(***************************************************************************)
FlagPositions(args, f) == {i \in 2..Len(args) : args[i].flag = long_name(f)}

Precedence(args, env, f) ==
    IF FlagPositions(args, f) # {}
    THEN args[CHOOSE i \in FlagPositions(args, f) : TRUE].val
    ELSE IF env[env_name(f)].set THEN env[env_name(f)].val
    ELSE default_value(f)

WellFormed(args) ==
    /\ \A i \in 2..Len(args) : \E f \in FieldSet : args[i].flag = long_name(f)
    /\ \A f \in FieldSet : Cardinality(FlagPositions(args, f)) <= 1

\* C8: each field of the Config that build resolves is the conversion of the
\* field's flag value if a flag is given, otherwise of its RAFT_ environment
\* variable if set, otherwise of its default; only the field's own flag and
\* variable enter the choice, and the build goes through whenever the strings
\* so chosen convert.
C8_FlagThenEnvThenDefault ==
    Built =>
        /\ call.config.ok =>
               \A f \in FieldSet :
                   call.config.val[f]
                       = convert(f, Precedence(call.args, call.env, f)).val
        /\ call.config.ok <=>
               /\ WellFormed(call.args)
               /\ \A f \in FieldSet :
                      convert(f, Precedence(call.args, call.env, f)).ok

\* a flag beats a differing environment value of its field while another
\* field is left to its default
C8_Witness ==
    /\ Built
    /\ call.config.ok
    /\ \E f \in FieldSet :
          /\ FlagPositions(call.args, f) # {}
          /\ call.env[env_name(f)].set
          /\ call.env[env_name(f)].val # Precedence(call.args, call.env, f)
    /\ \E g \in FieldSet :
          /\ FlagPositions(call.args, g) = {}
          /\ ~call.env[env_name(g)].set
          /\ call.config.val[g] = convert(g, default_value(g)).val

DefaultsListed ==
    [cluster_name |-> s_foo,
     election_timeout_min |-> 150,
     election_timeout_max |-> 300,
     heartbeat_interval |-> 50,
     install_snapshot_timeout |-> 200,
     max_payload_entries |-> 300,
     replication_lag_threshold |-> 1000,
     snapshot_policy |-> LogsSinceLast(5000),
     snapshot_max_chunk_size |-> 3 * 1024 * 1024,
     max_applied_log_to_keep |-> 1000]

NoOverrides == Built /\ Len(call.args) <= 1 /\ call.env = EmptyEnv

\* C9: building with no flags and no RAFT_ variable set yields exactly the
\* listed defaults.
C9_EmptySourceYieldsDefaults ==
    NoOverrides =>
        /\ result.tag = "Ok"
        /\ \A f \in FieldSet : result.config[f] = DefaultsListed[f]
        /\ DOMAIN result.config = DOMAIN DefaultsListed

C9_Witness ==
    /\ NoOverrides
    /\ call.args = <<ProgramName>>
    /\ result.tag = "Ok"
    /\ result.config.snapshot_max_chunk_size = 3145728

PolicyParsed == call.op = "parse_snapshot_policy"

Colons == {i \in 1..Len(src) : src[i] = ":"}

s_since_last_5000 == s_since_last \o s_colon \o <<"5", "0", "0", "0">>

\* C10: parse_snapshot_policy returns LogsSinceLast(n) exactly when the input
\* holds one ':' (two tokens), the text before it is "since_last" and the text
\* after it parses as an unsigned integer n; "since_last:5000" gives
\* LogsSinceLast(5000), and "since_last:", "foo:5000", "since_last:abc",
\* inputs without a colon and inputs with several all fail.
C10_PolicyGrammar ==
    PolicyParsed =>
        LET one == Cardinality(Colons) = 1
            at == CHOOSE i \in Colons : TRUE
            count == parse_u64(SubSeq(src, at + 1, Len(src)))
        IN  /\ result.ok <=>
                   (one /\ SubSeq(src, 1, at - 1) = s_since_last /\ count.ok)
            /\ result.ok => result.val = LogsSinceLast(count.val)
            /\ src = s_since_last_5000 => (result.ok /\ result.val.n = 5000)
            /\ src \in {s_since_last \o s_colon,
                        s_foo \o s_colon \o <<"5", "0", "0", "0">>,
                        s_since_last \o s_colon \o s_abc} => ~result.ok

C10_Witness ==
    /\ PolicyParsed
    /\ src = s_since_last_5000
    /\ result = [ok |-> TRUE, val |-> LogsSinceLast(5000)]

====
